---- MODULE Spec2Model ----
(***************************************************************************)
(* Krampus Kart PPO: the experience buffer (js/ppo/reward.js), the agent   *)
(* facade and its update procedure (js/ppo/actor-critic.js) and the game   *)
(* loop that drives them (main module, src/unnamed/part_001).              *)
(*                                                                         *)
(* Numbers.  The program computes with IEEE doubles; the model computes    *)
(* with exact rationals <<num, den>> kept in lowest terms with den > 0, so *)
(* that equality of values is equality of pairs.  A normalized advantage   *)
(* (a - mean) / (sqrt(variance) + 1e-8) is kept symbolically as the record *)
(* [c |-> a - mean, v |-> variance].                                       *)
(***************************************************************************)
EXTENDS Integers, Sequences, FiniteSets, TLC

VARIABLES
    buffer,         \* ExperienceBuffer fields (agent.buffer in the game loop)
    bufOp,          \* last ExperienceBuffer method that ran
    callArgs,       \* arguments of the last computeReturnsAndAdvantages call
    gaeAdvantages,  \* this.advantages as left by the GAE loop (reward.js:87),
                    \* before _normalizeAdvantages reassigns it
    gotBatches,     \* the last getBatches call: its arguments and what it gave
    gotStats,       \* what the last getStats call gave
    clipIn,         \* one sample's ratio and advantage in _updateBatch
    clipOut,        \* its surrogate terms: surr1, surr2 and their minimum
    actor,          \* one ActorCritic: its parameters, the last act() and the
                    \* last computeLogProb() on it
    apiCall,        \* the last call a client made on the PPOAgent, and how it ended
    logs,           \* debugLogger.logs
    cars,           \* state.cars: dead, finished, graceTimer, trajectory
    agent,          \* state.agent: the PPOAgent's counters and flags
    stateTotalSteps,    \* state.totalSteps
    stateUpdateCount,   \* state.updateCount
    procs,          \* the performPPOUpdate() calls that have not ended yet,
                    \* oldest first
    flushed         \* the trajectories the latest frame passed to agent.store

bufVars == <<buffer, bufOp, callArgs, gaeAdvantages, gotBatches, gotStats>>
clipVars == <<clipIn, clipOut>>
actorVars == <<actor>>
apiVars == <<apiCall>>
loggerVars == <<logs>>
loopVars == <<cars, agent, stateTotalSteps, stateUpdateCount, procs, flushed>>
harnessVars == <<bufOp, callArgs, gaeAdvantages, gotBatches, gotStats>>
vars == <<bufVars, clipVars, actorVars, apiVars, loggerVars, loopVars>>

----------------------------------------------------------------------------
(* Bounds *)

MaxLen == 3         \* longest buffer built in the numeric buffer harnesses
MaxStored == 4      \* longest buffer built in the buffer lifecycle harness
MaxBatchSize == 3   \* largest batchSize passed to getBatches there
MaxRatio == 2       \* largest subsampleRatio passed to getBatches there
MaxTotalSteps == 5  \* the game loop runs until the agent has stored this many
                    \* transitions
MaxEpisodeLen == 2  \* every car crashes or finishes by this step of its episode

----------------------------------------------------------------------------
(* Exact rational arithmetic *)

\* the single element of a singleton set (forces its evaluation)
The(S) == CHOOSE x \in S : TRUE

Abs(x) == IF x < 0 THEN -x ELSE x

RECURSIVE Gcd(_, _)
Gcd(a, b) == IF b = 0 THEN a ELSE Gcd(b, a % b)

Reduce(n, d, g) == <<n \div g, d \div g>>

\* n / d in lowest terms with a positive denominator
Rat(n, d) ==
    IF d < 0 THEN Reduce(-n, -d, Gcd(Abs(n), -d)) ELSE Reduce(n, d, Gcd(Abs(n), d))

I(n) == <<n, 1>>
\* sums, products and comparisons cancel common factors before multiplying, to
\* keep the intermediate integers small
RAdd(x, y) ==
    LET g == Gcd(x[2], y[2])
    IN  Rat(x[1] * (y[2] \div g) + y[1] * (x[2] \div g), (x[2] \div g) * y[2])
RSub(x, y) == RAdd(x, <<-y[1], y[2]>>)
RMul(x, y) ==
    LET g == Gcd(Abs(x[1]), y[2])
        h == Gcd(Abs(y[1]), x[2])
    IN  Rat((x[1] \div g) * (y[1] \div h), (x[2] \div h) * (y[2] \div g))
RDiv(x, y) == RMul(x, IF y[1] < 0 THEN <<-y[2], -y[1]>> ELSE <<y[2], y[1]>>)
RLt(x, y) ==
    LET g == Gcd(x[2], y[2])
    IN  x[1] * (y[2] \div g) < y[1] * (x[2] \div g)
RLe(x, y) ==
    LET g == Gcd(x[2], y[2])
    IN  x[1] * (y[2] \div g) <= y[1] * (x[2] \div g)
RMin(x, y) == IF RLe(x, y) THEN x ELSE y
RMax(x, y) == IF RLe(x, y) THEN y ELSE x
RSign(x) == IF x[1] > 0 THEN 1 ELSE IF x[1] < 0 THEN -1 ELSE 0

RECURSIVE SumInts(_)
RECURSIVE RSum(_)
SumInts(s) == IF s = <<>> THEN 0 ELSE Head(s) + SumInts(Tail(s))

RSum(s) == IF s = <<>> THEN I(0) ELSE RAdd(Head(s), RSum(Tail(s)))

RECURSIVE RPow(_, _)
RPow(x, k) == IF k = 0 THEN I(1) ELSE RMul(x, RPow(x, k - 1))

\* utils.js average(): arithmetic mean (0 for an empty array)
Average(s) == IF s = <<>> THEN I(0) ELSE RDiv(RSum(s), I(Len(s)))

----------------------------------------------------------------------------
(* ExperienceBuffer (js/ppo/reward.js) *)

\* null / non-null array fields: <<>> is null, <<arr>> is the array arr
Null == <<>>
Some(x) == <<x>>
IsNull(o) == o = <<>>
Val(o) == o[1]

\* clear(): reward.js:28-37
EmptyBuffer ==
    [states |-> <<>>, actions |-> <<>>, rewards |-> <<>>, values |-> <<>>,
     logProbs |-> <<>>, dones |-> <<>>, returns |-> Null, advantages |-> Null]

\* get length(): reward.js:39-41
Length(b) == Len(b.states)

\* A seeded fault of BufferAdd: the state is not kept.
BufferAdd_DropState(b, state, action, reward, value, logProb, done) ==
    [b EXCEPT !.actions = Append(@, action),
              !.rewards = Append(@, reward),
              !.values = Append(@, value),
              !.logProbs = Append(@, logProb),
              !.dones = Append(@, IF done THEN 1 ELSE 0)]

\* add(): reward.js:43-50; done is stored as 1 or 0; returns and advantages
\* are left as they are
BufferAdd(b, state, action, reward, value, logProb, done) ==
    [b EXCEPT !.states = Append(@, state),
              !.actions = Append(@, action),
              !.rewards = Append(@, reward),
              !.values = Append(@, value),
              !.logProbs = Append(@, logProb),
              !.dones = Append(@, IF done THEN 1 ELSE 0)]

\* A seeded fault of McStep: the accumulator is not reset at a done step.
McStep_NoReset(reward, done, mcReturn, gamma) ==
    RAdd(reward, RMul(gamma, mcReturn))

\* one iteration of the Monte Carlo loop: reward.js:64-70
McStep(reward, done, mcReturn, gamma) ==
    IF done = 1 THEN reward ELSE RAdd(reward, RMul(gamma, mcReturn))

\* the Monte Carlo loop run from n down to t: reward.js:62-72 (1-based t)
RECURSIVE McReturnAt(_, _, _, _, _)
McReturnAt(rewards, dones, lastValue, gamma, t) ==
    McStep(rewards[t], dones[t],
           IF t = Len(rewards) THEN lastValue
           ELSE McReturnAt(rewards, dones, lastValue, gamma, t + 1),
           gamma)

McReturns(b, lastValue, gamma) ==
    LET f == [t \in 1..Len(b.rewards) |->
                 McReturnAt(b.rewards, b.dones, lastValue, gamma, t)]
    IN  The({f})

\* A seeded fault of TdDelta: the bootstrap term is not masked by (1 - done).
TdDelta_NoMask(reward, value, nextValue, done, gamma) ==
    RSub(RAdd(reward, RMul(gamma, nextValue)), value)

\* A seeded fault of TdDelta: the baseline V(s) is not subtracted.
TdDelta_NoBaseline(reward, value, nextValue, done, gamma) ==
    RAdd(reward, RMul(RMul(gamma, nextValue), I(1 - done)))

\* TD error: reward.js:81
TdDelta(reward, value, nextValue, done, gamma) ==
    RSub(RAdd(reward, RMul(RMul(gamma, nextValue), I(1 - done))), value)

\* A seeded fault of GaeStep: the running advantage is not masked by (1 - done).
GaeStep_NoMask(delta, done, gae, gamma, lambda) ==
    RAdd(delta, RMul(RMul(gamma, lambda), gae))

\* GAE accumulation: reward.js:84
GaeStep(delta, done, gae, gamma, lambda) ==
    RAdd(delta, RMul(RMul(RMul(gamma, lambda), I(1 - done)), gae))

\* the GAE loop run from n down to t: reward.js:76-87 (1-based t).  The result
\* is <<advantages[t], ..., advantages[n]>>; its head is the running gae.
RECURSIVE GaeFrom(_, _, _, _, _)
GaeFrom(b, lastValue, gamma, lambda, t) ==
    IF t > Len(b.rewards) THEN <<>>
    ELSE LET later == The({GaeFrom(b, lastValue, gamma, lambda, t + 1)})
             nextValue == IF t = Len(b.rewards) THEN lastValue ELSE b.values[t + 1]
             delta == TdDelta(b.rewards[t], b.values[t], nextValue, b.dones[t], gamma)
             gae == IF later = <<>> THEN I(0) ELSE Head(later)
         IN  <<The({GaeStep(The({delta}), b.dones[t], gae, gamma, lambda)})>> \o later

GaePass(b, lastValue, gamma, lambda) == GaeFrom(b, lastValue, gamma, lambda, 1)

\* _normalizeAdvantages(): reward.js:103-111.  Entry t of the result stands for
\* (adv[t] - mean) / (sqrt(variance) + 1e-8).
\* A seeded fault of Centered: the mean is not subtracted.
Centered_Raw(adv, mean) == adv

Centered(adv, mean) == [t \in 1..Len(adv) |-> RSub(adv[t], mean)]
Squares(s) == [t \in 1..Len(s) |-> RMul(s[t], s[t])]
Tagged(cs, variance) == [t \in 1..Len(cs) |-> [c |-> cs[t], v |-> variance]]

NormalizeAdvantages(adv) ==
    IF Len(adv) = 0 THEN adv
    ELSE The({ Tagged(cs, RDiv(RSum(Squares(cs)), I(Len(adv)))) :
                 cs \in { Centered(a, Average(a)) : a \in {adv} } })

\* A seeded fault of ComputeReturnsAndAdvantages: the advantages are not set.
ComputeReturnsAndAdvantages_OnlyReturns(b, lastValue, gamma, lambda) ==
    [b EXCEPT !.returns = Some(McReturns(b, lastValue, gamma))]

\* computeReturnsAndAdvantages(): reward.js:55-101.  lastAvgMCReturn and the
\* console line are diagnostics that feed nothing back and are left out.
ComputeReturnsAndAdvantages(b, lastValue, gamma, lambda) ==
    [b EXCEPT !.returns = Some(McReturns(b, lastValue, gamma)),
              !.advantages =
                  Some(NormalizeAdvantages(GaePass(b, lastValue, gamma, lambda)))]

----------------------------------------------------------------------------
(* The clipped surrogate objective of PPOAgent._updateBatch                *)
(* (js/ppo/actor-critic.js:375-379), one sample at a time.                 *)

\* CONFIG.PPO.CLIP_EPSILON = 0.1: config module (src/unnamed/part_002:54)
CLIP_EPSILON == Rat(1, 10)

\* tf.clipByValue(x, lo, hi)
ClipByValue(x, lo, hi) == IF RLt(x, lo) THEN lo ELSE IF RLt(hi, x) THEN hi ELSE x

\* surr1 = ratio * advantage: actor-critic.js:376
Surr1(ratio, adv) == RMul(ratio, adv)

\* surr2 = clip(ratio, 1 - eps, 1 + eps) * advantage: actor-critic.js:377-378
Surr2(ratio, adv) ==
    RMul(ClipByValue(ratio, RSub(I(1), CLIP_EPSILON), RAdd(I(1), CLIP_EPSILON)), adv)

\* A seeded fault of SurrogateTerm: the larger of the two terms is taken.
SurrogateTerm_Max(ratio, adv) ==
    IF RLe(Surr1(ratio, adv), Surr2(ratio, adv)) THEN Surr2(ratio, adv)
    ELSE Surr1(ratio, adv)

\* tf.minimum(surr1, surr2), per sample: actor-critic.js:379
SurrogateTerm(ratio, adv) == RMin(Surr1(ratio, adv), Surr2(ratio, adv))

MaxRatioTenths == 30    \* ratios 0.1, 0.2, ... up to this many tenths
Ratios == {Rat(k, 10) : k \in 1..MaxRatioTenths}
Advantages == {I(-2), Rat(-1, 2), I(0), Rat(1, 2), I(2)}

NoSample == [ratio |-> I(0), advantage |-> I(0)]
NoTerms == [surr1 |-> I(0), surr2 |-> I(0), min |-> I(0)]

ClipInit ==
    /\ clipIn = NoSample
    /\ clipOut = NoTerms

\* ratio = exp(newLogProb - oldLogProb) is any positive number
ClipEval(ratio, adv) ==
    /\ clipIn' = [ratio |-> ratio, advantage |-> adv]
    /\ clipOut' = [surr1 |-> Surr1(ratio, adv), surr2 |-> Surr2(ratio, adv),
                   min |-> SurrogateTerm(ratio, adv)]

ClipNext ==
    \E r \in Ratios, a \in Advantages :
        ClipEval(r, a) /\ UNCHANGED <<bufVars, loopVars, actorVars, apiVars, loggerVars>>

----------------------------------------------------------------------------
(* The Gaussian policy of ActorCritic (js/ppo/actor-critic.js:6-171) and   *)
(* what PPOAgent._updateBatch does to it (354-409).                        *)
(*                                                                         *)
(* The actor network is one number, theta, and its output for the one      *)
(* state of this harness is theta / 2, inside tanh's range.  Math.exp and  *)
(* tf.exp are one positive increasing function with Exp(0) = 1, and        *)
(* arithmetic is exact: the rounding of float32 tensors is not modelled.   *)

\* CONFIG.PPO.ACTION_DIM: config module (src/unnamed/part_002:48)
ACTION_DIM == 1

\* tf.fill([actionDim], -1.0): actor-critic.js:18
LogStdInit == -1

\* tf.clipByValue(this.model.logStd, -3, 1): actor-critic.js:407
LogStdMin == -3
LogStdMax == 1

\* Math.log(2 * Math.PI): actor-critic.js:133, 167
LOG_2PI == Rat(919, 500)

\* Math.exp(x), tf.exp(x)
Exp(x) == IF x[1] >= 0 THEN RAdd(I(1), x) ELSE RDiv(I(1), RSub(I(1), x))

Dims == 1..ACTION_DIM

\* the values theta takes, and actorModel.predict(state): actor-critic.js:116
Thetas == -1..1
Predict(theta) == [i \in Dims |-> Rat(theta, 2)]

\* ActorCritic.constructor: actor-critic.js:7-19
NewActorCritic(theta) ==
    [theta |-> theta, logStd |-> [i \in Dims |-> I(LogStdInit)]]

\* one component's log-density in act(): actor-critic.js:128, 132-133
ActTerm(a, mean, logStd) ==
    LET std == Exp(logStd)
        diff == RSub(a, mean)
    IN  RMul(Rat(-1, 2),
             RAdd(RAdd(RDiv(RMul(diff, diff), RMul(std, std)), RMul(I(2), logStd)),
                  LOG_2PI))

\* the clipped sample: actor-critic.js:128-130
Sampled(mean, logStd, noise) ==
    RMax(I(-1), RMin(I(1), RAdd(mean, RMul(Exp(logStd), noise))))

\* A seeded fault of Act: the log-density is that of the sample before it is
\* clipped to [-1, 1].
Act_DensityOfRawSample(model, noise) ==
    LET mean == Predict(model.theta)
        action == [i \in Dims |-> Sampled(mean[i], model.logStd[i], noise[i])]
        raw == [i \in Dims |-> RAdd(mean[i], RMul(Exp(model.logStd[i]), noise[i]))]
    IN  [action |-> action,
         logProb |-> RSum([i \in Dims |-> ActTerm(raw[i], mean[i], model.logStd[i])]),
         mean |-> mean]

\* act(state): actor-critic.js:113-140 (the value is left out)
Act(model, noise) ==
    LET mean == Predict(model.theta)
        action == [i \in Dims |-> Sampled(mean[i], model.logStd[i], noise[i])]
    IN  [action |-> action,
         logProb |-> RSum([i \in Dims |-> ActTerm(action[i], mean[i], model.logStd[i])]),
         mean |-> mean]

\* computeLogProb(means, actions) for one row of the batch:
\* actor-critic.js:160-171
ComputeLogProb(model, means, actions) ==
    LET std == [i \in Dims |-> Exp(model.logStd[i])]
        variance == [i \in Dims |-> RMul(std[i], std[i])]
        diff == [i \in Dims |-> RSub(actions[i], means[i])]
        logProb == [i \in Dims |->
                       RMul(Rat(-1, 2),
                            RAdd(RDiv(RMul(diff[i], diff[i]), variance[i]),
                                 RAdd(RMul(I(2), model.logStd[i]), LOG_2PI)))]
    IN  RSum(logProb)

\* A seeded fault of ClampLogStd: only the upper limit is applied.
ClampLogStd_UpperOnly(logStd) ==
    [i \in Dims |-> RMin(logStd[i], I(LogStdMax))]

\* the clamp at the end of _updateBatch: actor-critic.js:406-409
ClampLogStd(logStd) ==
    [i \in Dims |-> ClipByValue(logStd[i], I(LogStdMin), I(LogStdMax))]

\* _updateBatch, as far as the actor goes: the optimizer moves the actor's
\* weights and logStd by whatever its gradient step comes to, then logStd is
\* clamped: actor-critic.js:371-390, 406-409
UpdateActor(model, theta, step) ==
    [model EXCEPT !.theta = theta,
                  !.logStd = ClampLogStd([i \in Dims |-> RAdd(@[i], step[i])])]

\* the ratio and the two surrogate terms of one sample: actor-critic.js:372-379
SampleTerms(model, means, actions, oldLogProb, advantage) ==
    LET newLogProb == ComputeLogProb(model, means, actions)
        ratio == Exp(RSub(newLogProb, oldLogProb))
    IN  [newLogProb |-> newLogProb, ratio |-> ratio, advantage |-> advantage,
         surr1 |-> Surr1(ratio, advantage), surr2 |-> Surr2(ratio, advantage)]

\* what the gradient step adds to a component of logStd (up to MaxLogStdStep
\* either way), and the noise
MaxLogStdStep == 5
Steps == {I(k) : k \in (0 - MaxLogStdStep)..MaxLogStdStep}
Noises == {Rat(-3, 1), Rat(-1, 2), I(0), I(2)}

ActorInit ==
    actor = [model |-> NewActorCritic(0), op |-> "new", moved |-> <<>>,
             sample |-> Null, terms |-> Null]

\* act() on the one state; the transition remembers the parameters it was
\* collected under
ActorAct(noise) ==
    actor' = [actor EXCEPT !.op = "act", !.moved = <<>>,
                  !.sample = Some([model |-> actor.model, out |-> Act(actor.model, noise)]),
                  !.terms = Null]

\* one _updateBatch; moved is logStd as the optimizer left it, before the clamp
ActorUpdateBatch(theta, step) ==
    actor' = [actor EXCEPT !.op = "updateBatch",
                  !.moved = [i \in Dims |-> RAdd(actor.model.logStd[i], step[i])],
                  !.model = UpdateActor(@, theta, step),
                  !.terms = Null]

\* the actor step of _updateBatch on the collected transition, up to the
\* surrogate terms
ActorSampleTerms(advantage) ==
    /\ ~IsNull(actor.sample)
    /\ IsNull(actor.terms)
    /\ LET smp == Val(actor.sample)
       IN  actor' = [actor EXCEPT !.op = "computeLogProb", !.moved = <<>>,
                         !.terms = Some(SampleTerms(actor.model, Predict(actor.model.theta),
                                                    smp.out.action, smp.out.logProb,
                                                    advantage))]

ActorNext ==
    \/ \E noise \in [Dims -> Noises] :
          ActorAct(noise) /\ UNCHANGED <<bufVars, clipVars, loopVars, apiVars, loggerVars>>
    \/ \E theta \in Thetas, step \in [Dims -> Steps] :
          ActorUpdateBatch(theta, step) /\ UNCHANGED <<bufVars, clipVars, loopVars, apiVars, loggerVars>>
    \/ \E adv \in {I(-1), I(2)} :
          ActorSampleTerms(adv) /\ UNCHANGED <<bufVars, clipVars, loopVars, apiVars, loggerVars>>

----------------------------------------------------------------------------
(* The game loop (main module, src/unnamed/part_001), the cars as far as   *)
(* the loop reads them (car module, src/unnamed/part_000) and the agent    *)
(* facade PPOAgent (js/ppo/actor-critic.js:268-461).                       *)
(*                                                                         *)
(* Scheduling.  loop() is an animation-frame callback that re-arms itself  *)
(* at its end; performPPOUpdate() is an async function whose first await   *)
(* is a 50 ms timer.  A frame and a timer callback are macrotasks and run  *)
(* one at a time, each to its end or its first await.  The continuation   *)
(* of an await on an already settled promise is a microtask; the           *)
(* microtask queue is drained before the next macrotask starts.            *)
(*                                                                         *)
(* The configuration values marked "scaled" are smaller than in the        *)
(* config module so that the state space is finite and small; the code     *)
(* reads them only in the comparisons modelled here.                       *)

NUM_ENVS == 2                   \* scaled; 24 in the config module
GRACE_PERIOD == 1               \* scaled; 60
MIN_EPISODES_FOR_UPDATE == 2    \* scaled; 20
BATCH_SIZE == 2                 \* scaled; 64
EPOCHS_PER_UPDATE == 2          \* scaled; 10
SUBSAMPLE_RATIO == 1
GAMMA == Rat(199, 200)
GAE_LAMBDA == Rat(19, 20)

CarIds == 1..NUM_ENVS

\* Car constructor and Car.resetAt(): part_000:5-45, 261-285
ResetAt == [dead |-> FALSE, finished |-> FALSE, graceTimer |-> GRACE_PERIOD,
            trajectory |-> <<>>]

\* new PPOAgent(): actor-critic.js:269-285.  lastLoss names the minibatch whose
\* losses it holds; update 0 stands for the initial zeros.  modelId is the
\* model's number (actor-critic.js:11); pretrained tells whether pretrain() has
\* run to its end on this instance.
NoLoss == [update |-> 0, epoch |-> 0, batch |-> 0]
NewAgent == [updateCount |-> 0, totalSteps |-> 0, episodeCount |-> 0,
             isUpdating |-> FALSE, lastLoss |-> NoLoss, modelId |-> 0,
             pretrained |-> FALSE]

\* A seeded fault of Pretrain: the call returns with the fitting still to be
\* done.
Pretrain_Deferred(ag) == ag

\* PPOAgent.pretrain() and ActorCritic.pretrain(), which has no await and so
\* runs to its end when it is called: actor-critic.js:205-245, 451-453
Pretrain(ag) == [ag EXCEPT !.pretrained = TRUE]

\* What Car.update() finds for one car in one frame: it drives on, leaves the
\* road, completes its lap, or runs into the car `other` (0 unless it hits one).
Outcomes ==
    {o \in [kind : {"none", "drive", "wall", "finish", "hit"}, other : 0..NUM_ENVS] :
         (o.kind = "hit") <=> (o.other # 0)}

\* Car.update() / #checkCollision / #updateProgress: part_000:90-121, 164-228.
\* A collision needs both grace timers at 0 and the other car not dead.
ValidOutcome(cs, i, o) ==
    /\ o.kind # "none"
    /\ o.kind # "hit" => o.other = 0
    /\ o.kind = "drive" => Len(cs[i].trajectory) + 1 < MaxEpisodeLen
    /\ o.kind = "hit" =>
         /\ o.other \in CarIds \ {i}
         /\ ~cs[o.other].dead
         /\ cs[i].graceTimer <= 1
         /\ cs[o.other].graceTimer <= 0

\* ppoStep(car): part_001:227-261.  The state vector is named by the car.  The
\* action and its log-probability come from agent.act(), that is from the
\* policy as the updates completed so far have left it, and are named by the
\* number of those updates.  The reward and the critic's value, on which
\* neither the loop nor the agent branches, are fixed at 0.
PpoStep(cs, i, o) ==
    LET dead == o.kind \in {"wall", "hit"}
        finished == o.kind = "finish"
        step == [state |-> i, action |-> agent.updateCount, reward |-> I(0),
                 value |-> I(0), logProb |-> agent.updateCount,
                 done |-> dead \/ finished]
        cs1 == [cs EXCEPT ![i].dead = dead,
                          ![i].finished = finished,
                          ![i].graceTimer = IF @ > 0 THEN @ - 1 ELSE @,
                          ![i].trajectory = Append(@, step)]
    IN  IF o.kind = "hit" THEN [cs1 EXCEPT ![o.other].dead = TRUE] ELSE cs1

\* "PPO step for each car": part_001:102-107
RECURSIVE StepCars(_, _, _)
StepCars(cs, outs, i) ==
    IF i > NUM_ENVS THEN cs
    ELSE StepCars(The({IF cs[i].dead \/ cs[i].finished THEN cs
                       ELSE PpoStep(cs, i, outs[i])}),
                  outs, i + 1)

RECURSIVE ValidOuts(_, _, _)
ValidOuts(cs, outs, i) ==
    IF i > NUM_ENVS THEN TRUE
    ELSE IF cs[i].dead \/ cs[i].finished
         THEN outs[i] = [kind |-> "none", other |-> 0] /\ ValidOuts(cs, outs, i + 1)
         ELSE /\ ValidOutcome(cs, i, outs[i])
              /\ ValidOuts(The({PpoStep(cs, i, outs[i])}), outs, i + 1)

\* A seeded fault of AgentStore: every stored transition counts as an episode.
AgentStore_CountAll(ag, done) ==
    [ag EXCEPT !.totalSteps = @ + 1, !.episodeCount = @ + 1]

\* PPOAgent.store(), the agent's part: actor-critic.js:298-304
AgentStore(ag, done) ==
    [ag EXCEPT !.totalSteps = @ + 1,
               !.episodeCount = IF done THEN @ + 1 ELSE @]

\* A seeded fault of StoreAll: only the first step of the trajectory is stored.
StoreAll_OnlyFirst(st, traj) ==
    IF traj = <<>> THEN st
    ELSE [st EXCEPT !.buffer = BufferAdd(@, traj[1].state, traj[1].action,
                                         traj[1].reward, traj[1].value,
                                         traj[1].logProb, traj[1].done),
                    !.agent = AgentStore(@, traj[1].done)]

\* "Flush episode to training buffer": part_001:115-117, over one trajectory
RECURSIVE StoreAll(_, _)
StoreAll(st, traj) ==
    IF traj = <<>> THEN st
    ELSE LET step == Head(traj)
         IN  StoreAll(The({[st EXCEPT
                          !.buffer = BufferAdd(@, step.state, step.action, step.reward,
                                               step.value, step.logProb, step.done),
                          !.agent = AgentStore(@, step.done)]}),
                      Tail(traj))

\* resetFinishedCars() with the loop's callback: simulation.js:104-121,
\* part_001:113-133
RECURSIVE FlushCars(_, _)
FlushCars(st, i) ==
    IF i > NUM_ENVS THEN st
    ELSE IF st.cars[i].dead \/ st.cars[i].finished
         THEN LET stored == StoreAll(st, st.cars[i].trajectory)
              IN  FlushCars(The({[stored EXCEPT
                                     !.flushed = Append(@, st.cars[i].trajectory),
                                     !.total = @ + Len(st.cars[i].trajectory),
                                     !.cars[i] = ResetAt]}),
                            i + 1)
         ELSE FlushCars(st, i + 1)

\* PPOAgent.shouldUpdate(): actor-critic.js:307-309
ShouldUpdate(ag) == ag.episodeCount >= MIN_EPISODES_FOR_UPDATE

\* A performPPOUpdate() call: asleep on its 50 ms timer ("sleep"), inside
\* agent.update() at an await on _updateBatch ("update"), or at its own await of
\* the update's result ("returned").  batches holds the minibatches of the epoch
\* that the for-of loop has not reached yet, and batch is the number of the one
\* whose _updateBatch is awaited.  trigger records what the loop had done
\* when it made the call, entry what update() found when it was entered; stats
\* is what update() returned.
NoEntry == [buffer |-> EmptyBuffer, updateCount |-> 0, totalSteps |-> 0,
            episodeCount |-> 0, recorded |-> 0, isUpdating |-> FALSE]
Sleeping(recorded, totalSteps) ==
    [pc |-> "sleep", epoch |-> 0, batches |-> <<>>, batch |-> 0, oldLogProbs |-> <<>>,
     trigger |-> [recorded |-> recorded, totalSteps |-> totalSteps],
     entry |-> NoEntry, stats |-> 0]

\* A seeded fault of MicrotaskQueueEmpty: update() yields to the event loop at
\* its awaits (as an await on a timer or on the next frame would).
MicrotaskQueueEmpty_Yielding == TRUE

\* No continuation is waiting: update() awaits only _updateBatch, which has no
\* await of its own (actor-critic.js:329, 354-429), and performPPOUpdate awaits
\* update() (part_001:273).
MicrotaskQueueEmpty == \A p \in 1..Len(procs) : procs[p].pc = "sleep"

\* every transition recorded so far by ppoStep: flushed or still in a trajectory
RECURSIVE TrajectoryTotal(_, _)
TrajectoryTotal(cs, i) ==
    IF i > NUM_ENVS THEN 0 ELSE Len(cs[i].trajectory) + TrajectoryTotal(cs, i + 1)

RecordedIn(total, cs) == total + TrajectoryTotal(cs, 1)

Recorded == RecordedIn(stateTotalSteps, cars)

\* setup(): part_001:67-95
LoopInit ==
    /\ cars = [i \in CarIds |-> ResetAt]
    /\ agent = Pretrain(NewAgent)
    /\ stateTotalSteps = 0
    /\ stateUpdateCount = 0
    /\ procs = <<>>
    /\ flushed = <<>>

\* loop(), one animation frame: part_001:97-225
Loop ==
    /\ MicrotaskQueueEmpty
    /\ \E outs \in [CarIds -> Outcomes] :
         /\ ValidOuts(cars, outs, 1)
         /\ LET st == FlushCars([cars |-> StepCars(cars, outs, 1), agent |-> agent,
                                 buffer |-> buffer, total |-> stateTotalSteps,
                                 flushed |-> <<>>], 1)
            IN  /\ st.agent.totalSteps <= MaxTotalSteps
                /\ st.total <= MaxTotalSteps
                /\ cars' = st.cars
                /\ agent' = st.agent
                /\ buffer' = st.buffer
                /\ stateTotalSteps' = st.total
                /\ flushed' = st.flushed
                /\ procs' = IF ShouldUpdate(st.agent)
                            THEN Append(procs, Sleeping(RecordedIn(st.total, st.cars),
                                                        st.agent.totalSteps))
                            ELSE procs
    /\ UNCHANGED <<stateUpdateCount, harnessVars, clipVars, actorVars, apiVars, loggerVars>>

\* getBatches(): reward.js:115-151.  perm is the outcome of the shuffle.  A
\* minibatch is given by the (1-based) buffer indices it slices.
RECURSIVE Shuffles(_)
Shuffles(n) ==
    IF n = 0 THEN {<<>>}
    ELSE {SubSeq(f, 1, k - 1) \o <<n>> \o SubSeq(f, k, n - 1) :
              f \in Shuffles(n - 1), k \in 1..n}

\* A seeded fault of Indices: the ratio is ignored.
Indices_All(n, ratio) == [k \in 1..n |-> k]

Indices(n, ratio) ==
    IF ratio > 1 THEN [k \in 1..((n + ratio - 1) \div ratio) |-> (k - 1) * ratio + 1]
    ELSE [k \in 1..n |-> k]

\* A seeded fault of Chunks: a short trailing minibatch is kept.
RECURSIVE Chunks_KeepTiny(_, _, _)
Chunks_KeepTiny(idx, start, batchSize) ==
    IF start >= Len(idx) THEN <<>>
    ELSE LET last == IF start + batchSize < Len(idx) THEN start + batchSize ELSE Len(idx)
         IN  <<SubSeq(idx, start + 1, last)>>
             \o Chunks_KeepTiny(idx, start + batchSize, batchSize)

RECURSIVE Chunks(_, _, _)
Chunks(idx, start, batchSize) ==
    IF start >= Len(idx) THEN <<>>
    ELSE LET last == IF start + batchSize < Len(idx) THEN start + batchSize ELSE Len(idx)
             chunk == SubSeq(idx, start + 1, last)
         IN  (IF 2 * Len(chunk) < batchSize THEN <<>> ELSE <<chunk>>)
             \o Chunks(idx, start + batchSize, batchSize)

GetBatches(b, batchSize, ratio, perm) ==
    LET idx == Indices(Length(b), ratio)
    IN  Chunks([k \in 1..Len(idx) |-> idx[perm[k]]], 0, batchSize)

NumShuffled(b, ratio) == Len(Indices(Length(b), ratio))

\* arr[i] of a JavaScript array (1-based i): undefined outside the array
Undefined == <<>>
ArrayAt(arr, i) == IF i \in 1..Len(arr) THEN arr[i] ELSE Undefined

\* the slice of one array at the indices idx: reward.js:139-145
Slice(arr, idx) == [k \in 1..Len(idx) |-> ArrayAt(arr, idx[k])]

\* A seeded fault of BatchAt: the log-probabilities are not the stored ones.
BatchAt_Refreshed(b, idx) ==
    [states |-> Slice(b.states, idx),
     actions |-> Slice(b.actions, idx),
     returns |-> Slice(Val(b.returns), idx),
     advantages |-> Slice(Val(b.advantages), idx),
     oldLogProbs |-> [k \in 1..Len(idx) |-> -1]]

\* one minibatch, the slices at the indices idx: reward.js:139-145
BatchAt(b, idx) ==
    [states |-> Slice(b.states, idx),
     actions |-> Slice(b.actions, idx),
     returns |-> Slice(Val(b.returns), idx),
     advantages |-> Slice(Val(b.advantages), idx),
     oldLogProbs |-> Slice(b.logProbs, idx)]

\* _updateBatch(): actor-critic.js:354-429, as far as the agent's fields go:
\* lastLoss becomes the losses of this minibatch.
UpdateBatch(ag, update, epoch, batch) ==
    [ag EXCEPT !.lastLoss = [update |-> update, epoch |-> epoch, batch |-> batch]]

\* A seeded fault of FinishUpdate: the episode counter is not reset.
FinishUpdate_KeepEpisodes(ag) ==
    [ag EXCEPT !.updateCount = @ + 1, !.isUpdating = FALSE]

\* the end of update(): actor-critic.js:333-342
FinishUpdate(ag) ==
    [ag EXCEPT !.updateCount = @ + 1, !.episodeCount = 0, !.isUpdating = FALSE]

\* "ppo.SUBSAMPLE_RATIO || 1": actor-critic.js:323
SubsampleRatio == IF SUBSAMPLE_RATIO = 0 THEN 1 ELSE SUBSAMPLE_RATIO

\* update() from the end of one epoch on: the next epoch's minibatches are
\* drawn and the first is trained on, or, past the last epoch (or with nothing
\* to train on), the update ends and returns: actor-critic.js:324-352
NextEpochIn(ps, p, ctx, epoch, buf, ag) ==
    IF epoch < EPOCHS_PER_UPDATE
       /\ Chunks(Indices(Length(buf), SubsampleRatio), 0, BATCH_SIZE) # <<>>
    THEN \E perm \in Shuffles(NumShuffled(buf, SubsampleRatio)) :
           LET batches == GetBatches(buf, BATCH_SIZE, SubsampleRatio, perm)
           IN
           /\ procs' = [ps EXCEPT ![p] =
                  [ctx EXCEPT !.pc = "update", !.epoch = epoch, !.batch = 1,
                              !.batches = Tail(batches),
                              !.oldLogProbs = BatchAt(buf, Head(batches)).oldLogProbs]]
           /\ agent' = UpdateBatch(ag, ctx.entry.updateCount + 1, epoch, 1)
           /\ buffer' = buf
    ELSE /\ procs' = [ps EXCEPT ![p] =
                [ctx EXCEPT !.pc = "returned", !.batches = <<>>, !.batch = 0,
                            !.oldLogProbs = <<>>,
                            !.stats = FinishUpdate(ag).updateCount]]
         /\ agent' = FinishUpdate(ag)
         /\ buffer' = EmptyBuffer

NextEpoch(p, ctx, epoch, buf, ag) == NextEpochIn(procs, p, ctx, epoch, buf, ag)

\* the bootstrap values: part_001:268-271; the critic's value is 0
LastValues == [i \in CarIds |-> I(0)]

\* their mean, the bootstrap of the update: actor-critic.js:317-319
LastValue == RDiv(RSum(LastValues), I(Len(LastValues)))

\* The 50 ms timer of the oldest sleeping performPPOUpdate() fires
\* (part_001:266-273): update() is entered and runs to its first await
\* (actor-critic.js:312-329).
TimerFire ==
    /\ MicrotaskQueueEmpty
    /\ \E p \in 1..Len(procs) :
         /\ procs[p].pc = "sleep"
         /\ \A q \in 1..(p - 1) : procs[q].pc # "sleep"
         /\ LET buf == ComputeReturnsAndAdvantages(buffer, LastValue, GAMMA, GAE_LAMBDA)
                ctx == [procs[p] EXCEPT !.entry =
                           [buffer |-> buffer, updateCount |-> agent.updateCount,
                            totalSteps |-> agent.totalSteps,
                            episodeCount |-> agent.episodeCount,
                            recorded |-> Recorded,
                            isUpdating |-> agent.isUpdating]]
            IN  NextEpoch(p, ctx, 0, buf, [agent EXCEPT !.isUpdating = TRUE])
    /\ UNCHANGED <<cars, stateTotalSteps, stateUpdateCount, flushed, harnessVars,
                 clipVars, actorVars, apiVars, loggerVars>>

\* update() resumes after "await this._updateBatch(batch)": the next minibatch
\* of the epoch, or the next epoch, or the end: actor-critic.js:324-352
UpdateResume ==
    \E p \in 1..Len(procs) :
        /\ procs[p].pc = "update"
        /\ LET ctx == procs[p]
           IN  IF ctx.batches # <<>>
               THEN /\ procs' = [procs EXCEPT ![p].batch = @ + 1,
                                              ![p].batches = Tail(@),
                                              ![p].oldLogProbs =
                                                  BatchAt(buffer, Head(ctx.batches)).oldLogProbs]
                    /\ agent' = UpdateBatch(agent, ctx.entry.updateCount + 1,
                                            ctx.epoch, ctx.batch + 1)
                    /\ buffer' = buffer
               ELSE NextEpoch(p, ctx, ctx.epoch + 1, buffer, agent)
        /\ UNCHANGED <<cars, stateTotalSteps, stateUpdateCount, flushed, harnessVars,
                 clipVars, actorVars, apiVars, loggerVars>>

\* performPPOUpdate() resumes after "await state.agent.update(lastValues)" and
\* ends: part_001:273-289
PerformContinue ==
    \E p \in 1..Len(procs) :
        /\ procs[p].pc = "returned"
        /\ stateUpdateCount' = procs[p].stats
        /\ procs' = SubSeq(procs, 1, p - 1) \o SubSeq(procs, p + 1, Len(procs))
        /\ UNCHANGED <<cars, agent, buffer, stateTotalSteps, flushed, harnessVars,
                       clipVars, actorVars, apiVars, loggerVars>>

LoopNext == Loop \/ TimerFire \/ UpdateResume \/ PerformContinue

\* restartFromScratch(), called from the console or the page between two
\* callbacks, up to its await: the agent is disposed of, a new one is made and
\* pretrained: part_001:298-306
MaxRestarts == 1
RestartBegin ==
    /\ MicrotaskQueueEmpty
    /\ agent.modelId < MaxRestarts
    /\ agent' = Pretrain([NewAgent EXCEPT !.modelId = agent.modelId + 1])
    /\ buffer' = EmptyBuffer
    /\ procs' = Append(procs, [Sleeping(Recorded, 0) EXCEPT !.pc = "restart"])
    /\ UNCHANGED <<cars, stateTotalSteps, stateUpdateCount, flushed, harnessVars,
                   clipVars, actorVars, apiVars, loggerVars>>

\* restartFromScratch() resumes after "await state.agent.pretrain()": the
\* statistics are reset and every car is put back on the grid:
\* part_001:308-321
RestartResume ==
    \E p \in 1..Len(procs) :
        /\ procs[p].pc = "restart"
        /\ stateUpdateCount' = 0
        /\ cars' = [i \in CarIds |-> ResetAt]
        /\ procs' = SubSeq(procs, 1, p - 1) \o SubSeq(procs, p + 1, Len(procs))
        /\ UNCHANGED <<agent, buffer, stateTotalSteps, flushed, harnessVars,
                       clipVars, actorVars, apiVars, loggerVars>>

RestartNext == Loop \/ TimerFire \/ UpdateResume \/ PerformContinue
               \/ RestartBegin \/ RestartResume

----------------------------------------------------------------------------
(* Specification of the buffer alone: any sequence of add,                 *)
(* computeReturnsAndAdvantages and clear calls on one ExperienceBuffer.    *)

NoArgs == [lastValue |-> I(0), gamma |-> I(0), lambda |-> I(0)]

\* getBatches() as its caller sees it: reward.js:115-151.  Slicing this.returns
\* or this.advantages while it is null raises a TypeError.
NoBatches == [after |-> "", batchSize |-> 0, ratio |-> 0, shuffle |-> <<>>,
              raised |-> FALSE, batches |-> <<>>]
GetBatchesResult(b, batchSize, ratio, perm) ==
    LET idxs == GetBatches(b, batchSize, ratio, perm)
    IN  IF idxs # <<>> /\ (IsNull(b.returns) \/ IsNull(b.advantages))
        THEN [after |-> "", batchSize |-> batchSize, ratio |-> ratio,
              shuffle |-> perm, raised |-> TRUE, batches |-> <<>>]
        ELSE [after |-> "", batchSize |-> batchSize, ratio |-> ratio,
              shuffle |-> perm, raised |-> FALSE,
              batches |-> [k \in 1..Len(idxs) |-> BatchAt(b, idxs[k])]]

\* 0 / 0 in JavaScript
NaN == <<0, 0>>

\* A seeded fault of GetStats: the empty case is not singled out.
GetStats_Unguarded(b) ==
    [meanReward |-> IF Len(b.rewards) = 0 THEN NaN
                    ELSE RDiv(RSum(b.rewards), I(Len(b.rewards))),
     totalReward |-> RSum(b.rewards),
     episodes |-> SumInts(b.dones),
     steps |-> Len(b.rewards)]

\* getStats(): reward.js:154-167
GetStats(b) ==
    LET n == Len(b.rewards)
    IN  IF n = 0 THEN [meanReward |-> I(0), totalReward |-> I(0), episodes |-> 0]
        ELSE [meanReward |-> RDiv(RSum(b.rewards), I(n)),
              totalReward |-> RSum(b.rewards),
              episodes |-> SumInts(b.dones),
              steps |-> n]

\* new ExperienceBuffer(): reward.js:24-26
BufInit ==
    /\ buffer = EmptyBuffer
    /\ bufOp = "new"
    /\ callArgs = NoArgs
    /\ gaeAdvantages = <<>>
    /\ gotBatches = NoBatches
    /\ gotStats = Null

BufAdd(reward, value, done) ==
    /\ Length(buffer) < MaxLen
    /\ buffer' = BufferAdd(buffer, 0, 0, reward, value, 0, done)
    /\ bufOp' = "add"
    /\ callArgs' = NoArgs
    /\ gaeAdvantages' = <<>>
    /\ gotBatches' = NoBatches
    /\ gotStats' = Null

BufCompute(lastValue, gamma, lambda) ==
    /\ buffer' = ComputeReturnsAndAdvantages(buffer, lastValue, gamma, lambda)
    /\ gaeAdvantages' = GaePass(buffer, lastValue, gamma, lambda)
    /\ callArgs' = [lastValue |-> lastValue, gamma |-> gamma, lambda |-> lambda]
    /\ bufOp' = "compute"
    /\ gotBatches' = NoBatches
    /\ gotStats' = Null

BufClear ==
    /\ buffer' = EmptyBuffer
    /\ bufOp' = "clear"
    /\ callArgs' = NoArgs
    /\ gaeAdvantages' = <<>>
    /\ gotBatches' = NoBatches
    /\ gotStats' = Null

\* Harness for the Monte Carlo returns: buffers are built by add, handed to
\* computeReturnsAndAdvantages once and cleared before the next one is built.
Building == bufOp # "compute"

ReturnsNext ==
    \/ \E r \in {I(1), I(2), I(3)}, d \in BOOLEAN :
          Building /\ BufAdd(r, I(0), d) /\ UNCHANGED <<clipVars, actorVars, apiVars, loggerVars, loopVars>>
    \/ \E lv \in {I(0), I(2)}, g \in {Rat(1, 2), I(1)} :
          Building /\ BufCompute(lv, g, I(1)) /\ UNCHANGED <<clipVars, actorVars, apiVars, loggerVars, loopVars>>
    \/ BufClear /\ UNCHANGED <<clipVars, actorVars, apiVars, loggerVars, loopVars>>

\* no call made on the PPOAgent yet
NoCall == [op |-> "new", raised |-> FALSE, during |-> FALSE, wellFormed |-> TRUE,
           before |-> [length |-> 0, totalSteps |-> 0, episodeCount |-> 0,
                       updateCount |-> 0]]

ApiInit == apiCall = NoCall

\* new DebugLogger(): debug-logger.js:6-10
LoggerInit == logs = [entries |-> <<>>, stepCount |-> 0, calls |-> 0]

Init == BufInit /\ ClipInit /\ ActorInit /\ ApiInit /\ LoggerInit /\ LoopInit

SpecReturns == Init /\ [][ReturnsNext]_vars

\* Harness for the advantages: as above, with stored values that vary.
GaeNext ==
    \/ \E r \in {I(1), I(2)}, v \in {I(0), I(2)}, d \in BOOLEAN :
          Building /\ BufAdd(r, v, d) /\ UNCHANGED <<clipVars, actorVars, apiVars, loggerVars, loopVars>>
    \/ \E lv \in {I(0), I(2)}, g \in {Rat(1, 2), I(1)}, l \in {Rat(1, 2), I(1)} :
          Building /\ BufCompute(lv, g, l) /\ UNCHANGED <<clipVars, actorVars, apiVars, loggerVars, loopVars>>
    \/ BufClear /\ UNCHANGED <<clipVars, actorVars, apiVars, loggerVars, loopVars>>

SpecGae == Init /\ [][GaeNext]_vars

\* Harness for the buffer's lifecycle: add, computeReturnsAndAdvantages,
\* getBatches and clear in any order (getBatches changes nothing, so it is
\* followed by add or clear only).  Transition number n is stored with state,
\* action, reward and logProb n, so that every entry tells where it came from,
\* and every second transition ends an episode.
BufStore(state, action, reward, value, logProb, done) ==
    /\ Length(buffer) < MaxStored
    /\ buffer' = BufferAdd(buffer, state, action, reward, value, logProb, done)
    /\ bufOp' = "add"
    /\ callArgs' = NoArgs
    /\ gaeAdvantages' = <<>>
    /\ gotBatches' = NoBatches
    /\ gotStats' = Null

BufGetBatches(batchSize, ratio, perm) ==
    /\ gotBatches' = [GetBatchesResult(buffer, batchSize, ratio, perm)
                          EXCEPT !.after = bufOp]
    /\ bufOp' = "getBatches"
    /\ UNCHANGED <<buffer, callArgs, gaeAdvantages, gotStats>>

BufGetStats ==
    /\ gotStats' = Some(GetStats(buffer))
    /\ bufOp' = "getStats"
    /\ UNCHANGED <<buffer, callArgs, gaeAdvantages, gotBatches>>

LifecycleNext ==
    \/ LET n == Length(buffer) + 1
       IN  BufStore(n, n, I(n), I(0), n, n % 2 = 0) /\ UNCHANGED <<clipVars, actorVars, apiVars, loggerVars, loopVars>>
    \/ /\ bufOp \notin {"getBatches", "getStats"}
       /\ BufCompute(I(0), Rat(1, 2), I(1))
       /\ UNCHANGED <<clipVars, actorVars, apiVars, loggerVars, loopVars>>
    \/ \E bs \in 1..MaxBatchSize, ratio \in 0..MaxRatio :
          \E perm \in Shuffles(NumShuffled(buffer, ratio)) :
              /\ bufOp \notin {"getBatches", "getStats"}
              /\ BufGetBatches(bs, ratio, perm)
              /\ UNCHANGED <<clipVars, actorVars, apiVars, loggerVars, loopVars>>
    \/ /\ bufOp \notin {"getBatches", "getStats"}
       /\ BufGetStats
       /\ UNCHANGED <<clipVars, actorVars, apiVars, loggerVars, loopVars>>
    \/ BufClear /\ UNCHANGED <<clipVars, actorVars, apiVars, loggerVars, loopVars>>

SpecBuffer == Init /\ [][LifecycleNext]_vars

----------------------------------------------------------------------------
(* The PPOAgent as a client other than the game loop may call it           *)
(* (js/ppo/actor-critic.js:268-352): store() with vectors of any length,   *)
(* at any time, and update() on any buffer.  The harness follows the agent *)
(* up to the first call that breaks the contract; what TensorFlow.js does  *)
(* later with a malformed or overgrown buffer is not in the source.        *)

\* CONFIG.PPO.INPUT_DIM: config module (src/unnamed/part_002:47)
INPUT_DIM == 10

MaxApiStored == 3   \* longest buffer a client builds
MaxApiUpdates == 2  \* updates a client runs

Vector(n) == [k \in 1..n |-> 0]

\* what a call finds
Found == [length |-> Length(buffer), totalSteps |-> agent.totalSteps,
          episodeCount |-> agent.episodeCount, updateCount |-> agent.updateCount]

\* the last call broke the contract: a store() during an update or with a
\* vector of the wrong length, or an update() on an empty buffer
ContractBroken ==
    \/ apiCall.op = "store" /\ (apiCall.during \/ ~apiCall.wellFormed)
    \/ apiCall.op = "update" /\ apiCall.before.length = 0

\* agent.store(state, action, reward, value, logProb, done):
\* actor-critic.js:298-304 and reward.js:43-50.  Nothing in either looks at
\* isUpdating or at the vectors' lengths.
ApiStore(state, action, done) ==
    /\ Length(buffer) < MaxApiStored
    /\ buffer' = BufferAdd(buffer, state, action, I(0), I(0), 0, done)
    /\ agent' = AgentStore(agent, done)
    /\ apiCall' = [op |-> "store", raised |-> FALSE, during |-> agent.isUpdating,
                   wellFormed |-> Len(state) = INPUT_DIM /\ Len(action) = ACTION_DIM,
                   before |-> Found]
    /\ UNCHANGED procs

\* agent.update(0), up to its first await or, with no minibatch to train on,
\* to its end: actor-critic.js:312-352.  The call is awaited by its client.
ApiUpdate ==
    /\ procs = <<>>
    /\ agent.updateCount < MaxApiUpdates
    /\ LET buf == ComputeReturnsAndAdvantages(buffer, I(0), GAMMA, GAE_LAMBDA)
           ctx == [Sleeping(Recorded, agent.totalSteps) EXCEPT !.entry =
                      [buffer |-> buffer, updateCount |-> agent.updateCount,
                       totalSteps |-> agent.totalSteps,
                       episodeCount |-> agent.episodeCount,
                       recorded |-> Recorded,
                            isUpdating |-> agent.isUpdating]]
       IN  NextEpochIn(<<ctx>>, 1, ctx, 0, buf, [agent EXCEPT !.isUpdating = TRUE])
    /\ apiCall' = [op |-> "update", raised |-> FALSE, during |-> agent.isUpdating,
                   wellFormed |-> TRUE, before |-> Found]

ApiNext ==
    \/ \E sl \in {INPUT_DIM, INPUT_DIM + 1}, al \in {ACTION_DIM, ACTION_DIM + 1},
         done \in BOOLEAN :
          /\ ~ContractBroken
          /\ ApiStore(Vector(sl), Vector(al), done)
          /\ UNCHANGED <<cars, stateTotalSteps, stateUpdateCount, flushed,
                         harnessVars, clipVars, actorVars, loggerVars>>
    \/ /\ ~ContractBroken
       /\ ApiUpdate
       /\ UNCHANGED <<cars, stateTotalSteps, stateUpdateCount, flushed,
                      harnessVars, clipVars, actorVars, loggerVars>>
    \/ ~ContractBroken /\ UpdateResume
    \/ ~ContractBroken /\ PerformContinue

SpecAgent == Init /\ [][ApiNext]_vars

----------------------------------------------------------------------------
(* The debug logger (js/debug-logger.js:5-63), with CONFIG.DEBUG_LOG true  *)
(* (src/unnamed/part_002:10).  Of an entry only its step number and its   *)
(* kind are kept.                                                          *)

maxLogs == 3        \* scaled; 10000 in the constructor (debug-logger.js:9)
MaxLogCalls == 6    \* calls made on the logger

\* logStep(data): debug-logger.js:12-31
LogStep(l) ==
    LET stepCount == l.stepCount + 1
        pushed == Append(l.entries, [step |-> stepCount, type |-> "step"])
    IN  [entries |-> IF Len(pushed) > maxLogs THEN Tail(pushed) ELSE pushed,
         stepCount |-> stepCount, calls |-> l.calls + 1]

\* logUpdate(data): debug-logger.js:33-63
LogUpdate(l) ==
    [l EXCEPT !.entries = Append(@, [step |-> l.stepCount, type |-> "update"]),
              !.calls = @ + 1]

LoggerNext ==
    \/ /\ logs.calls < MaxLogCalls
       /\ logs' = LogStep(logs)
       /\ UNCHANGED <<bufVars, clipVars, actorVars, apiVars, loopVars>>
    \/ /\ logs.calls < MaxLogCalls
       /\ logs' = LogUpdate(logs)
       /\ UNCHANGED <<bufVars, clipVars, actorVars, apiVars, loopVars>>

SpecLogger == Init /\ [][LoggerNext]_vars


SpecClip == Init /\ [][ClipNext]_vars

SpecActor == Init /\ [][ActorNext]_vars

Spec == Init /\ [][LoopNext]_vars

\* a 50 ms timer started by performPPOUpdate() has run out and its callback can
\* be called: part_001:266
TimerDue == MicrotaskQueueEmpty /\ \E p \in 1..Len(procs) : procs[p].pc = "sleep"

\* update() waits at "await this._updateBatch(batch)" on a promise that is
\* already resolved: actor-critic.js:328-330
UpdatePending == \E p \in 1..Len(procs) : procs[p].pc = "update"

\* The game loop with the browser keeping its promises: a timer that has run
\* out fires, and a continuation whose promise is resolved is run.  Nothing is
\* asked of the animation frames.  TimerFire is enabled exactly when TimerDue
\* holds, frames leave TimerDue as it is and TimerFire ends it, so
\* WF_vars(TimerFire) is []<>~TimerDue; in the same way UpdateResume, the only
\* step there is while UpdatePending holds, is enabled exactly then and ends it
\* after the update's last minibatch, so WF_vars(UpdateResume) is
\* []<>~UpdatePending.  The two are written in that form, which spares the
\* evaluation of ENABLED on the actions that compute returns and minibatches.
SpecLive ==
    /\ Init
    /\ [][LoopNext]_vars
    /\ []<>~TimerDue
    /\ []<>~UpdatePending
    /\ WF_vars(PerformContinue)

SpecRestart == Init /\ [][RestartNext]_vars

----------------------------------------------------------------------------
(* Claims about computeReturnsAndAdvantages *)

Computed == bufOp = "compute"
N == Len(buffer.rewards)
DoneAt(k) == buffer.dones[k] = 1

\* the first k transitions of b, as a buffer of its own
Prefix(b, k) ==
    [b EXCEPT !.states = SubSeq(@, 1, k), !.actions = SubSeq(@, 1, k),
              !.rewards = SubSeq(@, 1, k), !.values = SubSeq(@, 1, k),
              !.logProbs = SubSeq(@, 1, k), !.dones = SubSeq(@, 1, k),
              !.returns = Null, !.advantages = Null]

\* index of the step that ends the episode step t belongs to; N + 1 if the
\* episode is still running at the end of the buffer
RECURSIVE EpisodeEnd(_)
EpisodeEnd(t) == IF t > N THEN N + 1 ELSE IF DoneAt(t) THEN t ELSE EpisodeEnd(t + 1)

RECURSIVE DiscountedSum(_, _, _)
DiscountedSum(t, j, last) ==
    IF j > last THEN I(0)
    ELSE RAdd(RMul(RPow(callArgs.gamma, j - t), buffer.rewards[j]),
              DiscountedSum(t, j + 1, last))

\* the discounted sum of the rewards from t to the end of t's episode, plus the
\* discounted bootstrap value when the episode runs past the end of the buffer
RefReturn(t) ==
    LET e == EpisodeEnd(t)
    IN  IF e <= N THEN DiscountedSum(t, t, e)
        ELSE RAdd(DiscountedSum(t, t, N),
                  RMul(RPow(callArgs.gamma, N - t + 1), callArgs.lastValue))

IsSpecExample ==
    /\ Computed
    /\ buffer.rewards = <<I(1), I(2), I(3)>>
    /\ buffer.dones = <<0, 0, 1>>
    /\ callArgs.gamma = Rat(1, 2)

\* C1: after computeReturnsAndAdvantages(bootstrap, gamma, lambda) the returns
\* obey returns[t] = rewards[t] if dones[t], else rewards[t] + gamma * returns[t+1]
\* with returns[n] the bootstrap value, and each equals the discounted sum of the
\* rewards up to the end of its episode; rewards [1,2,3], dones [0,0,1], gamma 0.5
\* give [2.75, 3.5, 3].
C1_McReturnRecursion ==
    Computed =>
        /\ ~IsNull(buffer.returns)
        /\ Len(Val(buffer.returns)) = N
        /\ \A t \in 1..N :
             /\ Val(buffer.returns)[t] =
                  IF DoneAt(t) THEN buffer.rewards[t]
                  ELSE RAdd(buffer.rewards[t],
                            RMul(callArgs.gamma,
                                 IF t = N THEN callArgs.lastValue
                                 ELSE Val(buffer.returns)[t + 1]))
             /\ Val(buffer.returns)[t] = RefReturn(t)
        /\ IsSpecExample =>
             Val(buffer.returns) = <<Rat(11, 4), Rat(7, 2), I(3)>>

C1_Witness == IsSpecExample /\ callArgs.lastValue = I(2)

\* C2: if dones[k] is set, returns[t] for t <= k is what the first k+1
\* transitions alone give under any bootstrap value; so any two buffers that
\* agree up to k have the same returns up to k, whatever follows k.
C2_ReturnSeverance ==
    Computed =>
        \A k \in 1..N : DoneAt(k) =>
            \A lv \in {I(0), I(2), I(5)} : \A t \in 1..k :
                Val(buffer.returns)[t] =
                    McReturns(Prefix(buffer, k), lv, callArgs.gamma)[t]

C2_Witness ==
    /\ Computed
    /\ N = 3
    /\ buffer.dones = <<0, 1, 0>>
    /\ callArgs.lastValue = I(2)

\* C3 as amended: if dones[k] is set, the GAE advantage of the backward pass
\* (before normalization) at t <= k is what the first k+1 transitions alone
\* give under any bootstrap value: nothing stored after k reaches it.
C3_RawAdvantageSeverance ==
    Computed =>
        \A k \in 1..N : DoneAt(k) =>
            \A lv \in {I(0), I(2), I(5)} :
                SubSeq(gaeAdvantages, 1, k) =
                    GaePass(Prefix(buffer, k), lv, callArgs.gamma, callArgs.lambda)

C3_Witness ==
    /\ Computed
    /\ N = 3
    /\ buffer.dones = <<0, 1, 0>>
    /\ buffer.values[3] = I(2)
    /\ callArgs.lastValue = I(2)
    /\ callArgs.lambda = Rat(1, 2)

\* Two normalized advantages that are certainly different numbers: over the
\* same variance with different numerators, or of different sign.
AdvDiffer(x, y) ==
    \/ x.v = y.v /\ x.c # y.c
    \/ RSign(x.c) # RSign(y.c)

\* C3 as stated: if dones[k] is set, the advantage left in the buffer at
\* t <= k is unaffected by the rewards stored after k (here: by replacing the
\* reward at the last index).
C3_StoredAdvantageSeverance ==
    Computed =>
        \A k \in 1..(N - 1) : DoneAt(k) =>
            \A r \in {I(1), I(2)} : \A t \in 1..k :
                ~AdvDiffer(
                    Val(buffer.advantages)[t],
                    NormalizeAdvantages(
                        GaePass([buffer EXCEPT !.rewards[N] = r], callArgs.lastValue,
                                callArgs.gamma, callArgs.lambda))[t])

PerfectValues ==
    \A t \in 1..N :
        buffer.values[t] =
            RAdd(buffer.rewards[t],
                 RMul(callArgs.gamma,
                      IF t = N THEN callArgs.lastValue ELSE buffer.values[t + 1]))

\* C4: on a buffer with no done flag whose values satisfy
\* values[t] = rewards[t] + gamma * values[t+1] (values[n] the bootstrap value),
\* every advantage of the GAE pass, before normalization, is 0, for every lambda.
C4_ZeroAdvantageOnPerfectValues ==
    (Computed /\ (\A t \in 1..N : ~DoneAt(t)) /\ PerfectValues) =>
        \A t \in 1..N : gaeAdvantages[t] = I(0)

C4_Witness ==
    /\ Computed
    /\ N = 3
    /\ \A t \in 1..N : ~DoneAt(t)
    /\ PerfectValues
    /\ callArgs.lambda = Rat(1, 2)

----------------------------------------------------------------------------
(* Claims about the clipped surrogate *)

ClipLo == RSub(I(1), CLIP_EPSILON)
ClipHi == RAdd(I(1), CLIP_EPSILON)
Evaluated == clipIn # NoSample

\* the ratio is outside [1 - eps, 1 + eps] on the side the advantage favours
OutsideFavoured ==
    \/ RLt(ClipHi, clipIn.ratio) /\ RSign(clipIn.advantage) = 1
    \/ RLt(clipIn.ratio, ClipLo) /\ RSign(clipIn.advantage) = -1

\* the ratio is outside [1 - eps, 1 + eps] on the other side
OutsideOpposed ==
    \/ RLt(clipIn.ratio, ClipLo) /\ RSign(clipIn.advantage) = 1
    \/ RLt(ClipHi, clipIn.ratio) /\ RSign(clipIn.advantage) = -1

\* C5: the per-sample term min(ratio*A, clip(ratio, 1-eps, 1+eps)*A) is the
\* clipped term (1+eps)*A or (1-eps)*A when the ratio is outside the interval on
\* the side the advantage favours, the unclipped term ratio*A when it is outside
\* on the other side, and at ratio = 1 both terms are equal.
C5_ClipBoundary ==
    Evaluated =>
        /\ OutsideFavoured =>
              /\ clipOut.min = clipOut.surr2
              /\ clipOut.min # RMul(clipIn.ratio, clipIn.advantage)
              /\ clipOut.min =
                    RMul(IF RSign(clipIn.advantage) = 1 THEN ClipHi ELSE ClipLo,
                         clipIn.advantage)
        /\ OutsideOpposed =>
              /\ clipOut.min = RMul(clipIn.ratio, clipIn.advantage)
              /\ clipOut.min # clipOut.surr2
        /\ clipIn.ratio = I(1) =>
              /\ clipOut.surr1 = clipOut.surr2
              /\ clipOut.min = clipIn.advantage

C5_Witness ==
    /\ clipIn = [ratio |-> I(3), advantage |-> I(2)]
    /\ clipOut.min = Rat(11, 5)

----------------------------------------------------------------------------
(* Claims about the game loop and the update cycle, under Spec.            *)

RECURSIVE DoneCount(_)
DoneCount(dones) ==
    IF dones = <<>> THEN 0 ELSE Head(dones) + DoneCount(Tail(dones))

Calls == {procs[p] : p \in 1..Len(procs)}

C7_UpdatePostState ==
    \A c \in Calls :
        c.pc = "returned" =>
            /\ Length(buffer) = 0
            /\ buffer = EmptyBuffer
            /\ IsNull(buffer.returns) /\ IsNull(buffer.advantages)
            /\ agent.episodeCount = 0
            /\ ~agent.isUpdating
            /\ agent.updateCount = c.entry.updateCount + 1
            /\ c.stats = agent.updateCount
            /\ agent.totalSteps = c.entry.totalSteps

\* an update that trained on a full buffer has just returned
C7_Witness ==
    \E c \in Calls :
        /\ c.pc = "returned"
        /\ Length(c.entry.buffer) >= MIN_EPISODES_FOR_UPDATE
        /\ c.entry.episodeCount >= MIN_EPISODES_FOR_UPDATE
        /\ agent.lastLoss.update = agent.updateCount

\* C8: from the frame that triggers performPPOUpdate() until that update has
\* run to completion, no ppoStep and no agent.store() executes: the number of
\* recorded transitions and the agent's totalSteps stay what they were at the
\* trigger.
C8_NoStepBeforeUpdateCompletes ==
    \A c \in Calls :
        c.pc \in {"sleep", "update"} =>
            /\ Recorded = c.trigger.recorded
            /\ agent.totalSteps = c.trigger.totalSteps

\* C9: while update() is between its entry and its return, nothing has been
\* stored, no car has acted and the buffer has not been cleared: the buffer is
\* the one found at entry with its returns and advantages computed, and every
\* minibatch indexes into it.
C9_ExclusiveAccessDuringUpdate ==
    \A c \in Calls :
        c.pc = "update" =>
            /\ agent.isUpdating
            /\ buffer = ComputeReturnsAndAdvantages(c.entry.buffer, LastValue,
                                                    GAMMA, GAE_LAMBDA)
            /\ agent.totalSteps = c.entry.totalSteps
            /\ Recorded = c.entry.recorded
            /\ \A k \in 1..Len(c.batches) : \A j \in 1..Len(c.batches[k]) :
                   c.batches[k][j] \in 1..Length(c.entry.buffer)

\* update() is at the last minibatch of its last epoch
C9_Witness ==
    \E c \in Calls :
        /\ c.pc = "update"
        /\ c.epoch = EPOCHS_PER_UPDATE - 1
        /\ c.batch > 1 /\ c.batches = <<>>
        /\ Length(c.entry.buffer) >= MIN_EPISODES_FOR_UPDATE
        /\ agent.lastLoss = [update |-> c.entry.updateCount + 1, epoch |-> c.epoch,
                             batch |-> c.batch]

\* C10: every execution of update() was entered with shouldUpdate() true.
C10_UpdateStartsOnlyWhenReady ==
    \A c \in Calls :
        c.pc \in {"update", "returned"} =>
            c.entry.episodeCount >= MIN_EPISODES_FOR_UPDATE

\* C11: every trajectory the loop flushes to agent.store is one whole episode:
\* its last transition has done = true and no earlier one has.
C11_OnlyCompleteEpisodesFlushed ==
    \A k \in 1..Len(flushed) :
        /\ flushed[k] # <<>>
        /\ flushed[k][Len(flushed[k])].done
        /\ \A j \in 1..(Len(flushed[k]) - 1) : ~flushed[k][j].done

\* C12: every transition an update consumes was collected (acted on) after the
\* previous update completed, that is under the policy the update starts from.
C12_NoCarryoverBetweenUpdates ==
    \A c \in Calls :
        c.pc \in {"update", "returned"} =>
            \A t \in 1..Length(c.entry.buffer) :
                c.entry.buffer.actions[t] = c.entry.updateCount

----------------------------------------------------------------------------
(* Claims about the buffer's lifecycle and getBatches, under SpecBuffer.    *)

AfterClear ==
    \/ bufOp = "clear"
    \/ bufOp = "getBatches" /\ gotBatches.after = "clear"

\* C14: after clear() the length is 0 and getBatches() gives no minibatch and
\* raises nothing; an add() that follows gives a buffer of length 1 that holds
\* the new transition only.
C14_ClearedBufferLifecycle ==
    /\ [](bufOp = "clear" => Length(buffer) = 0 /\ buffer = EmptyBuffer)
    /\ [](bufOp = "getBatches" /\ gotBatches.after = "clear" =>
            /\ Length(buffer) = 0
            /\ gotBatches.batches = <<>>
            /\ ~gotBatches.raised)
    /\ [][AfterClear /\ bufOp' = "add" =>
            /\ Length(buffer') = 1
            /\ buffer' = [states |-> <<1>>, actions |-> <<1>>, rewards |-> <<I(1)>>,
                          values |-> <<I(0)>>, logProbs |-> <<1>>, dones |-> <<0>>,
                          returns |-> Null, advantages |-> Null]]_vars

\* getBatches() has run right after clear()
C14_Witness ==
    /\ bufOp = "getBatches"
    /\ gotBatches.after = "clear"
    /\ gotBatches.batchSize = MaxBatchSize
    /\ gotBatches.batches = <<>>
    /\ ~gotBatches.raised

\* getBatches() has returned (it did not raise)
Returned == bufOp = "getBatches" /\ ~gotBatches.raised

\* The harness stores transition n with state n, so a minibatch's states are
\* the (1-based) buffer indices it was sliced at.
BatchIndices(k) == gotBatches.batches[k].states
Covered ==
    UNION {{BatchIndices(k)[j] : j \in 1..Len(BatchIndices(k))} :
               k \in 1..Len(gotBatches.batches)}

RECURSIVE TotalLen(_)
TotalLen(k) == IF k = 0 THEN 0 ELSE Len(BatchIndices(k)) + TotalLen(k - 1)

\* the indices 0, N, 2N, ... (1-based: 1, N + 1, ...) for a ratio N > 1, every
\* index otherwise
Selected(n, ratio) ==
    IF ratio > 1 THEN {i \in 1..n : (i - 1) % ratio = 0} ELSE 1..n

\* C15: the minibatches getBatches returns are disjoint and without repeats;
\* all but possibly the last have batchSize entries; they cover the selected
\* indices except for a trailing remainder, which is left out exactly when it
\* has fewer than batchSize / 2 entries; and each minibatch's states, actions,
\* returns, advantages and oldLogProbs are the buffer's entries at its indices.
C15_BatchesPartition ==
    Returned =>
        LET bs == gotBatches.batchSize
            nb == Len(gotBatches.batches)
            m == Cardinality(Selected(Length(buffer), gotBatches.ratio))
            rem == m % bs
        IN  /\ Cardinality(Covered) = TotalLen(nb)
            /\ Covered \subseteq 1..Length(buffer)
            /\ \A k \in 1..(nb - 1) : Len(BatchIndices(k)) = bs
            /\ nb > 0 => Len(BatchIndices(nb)) \in {bs, rem}
            /\ TotalLen(nb) = IF rem > 0 /\ 2 * rem < bs THEN m - rem ELSE m
            /\ \A k \in 1..nb : \A j \in 1..Len(BatchIndices(k)) :
                   LET b == gotBatches.batches[k]
                       i == BatchIndices(k)[j]
                   IN  /\ b.states[j] = buffer.states[i]
                       /\ b.actions[j] = buffer.actions[i]
                       /\ b.oldLogProbs[j] = buffer.logProbs[i]
                       /\ b.returns[j] = ArrayAt(Val(buffer.returns), i)
                       /\ b.advantages[j] = ArrayAt(Val(buffer.advantages), i)

\* four transitions with fresh returns, batchSize 3: one full minibatch, and a
\* remainder of one that is left out
C15_Witness ==
    /\ Returned
    /\ Length(buffer) = 4
    /\ Len(Val(buffer.returns)) = 4
    /\ gotBatches.batchSize = 3
    /\ gotBatches.ratio = 1
    /\ Len(gotBatches.batches) = 1
    /\ gotBatches.batches[1].states = <<3, 1, 4>>

\* C16: with a ratio N > 1 the minibatches draw from the indices 0, N, 2N, ...
\* only; with a ratio of 1 or less they draw from every index; in both cases
\* nothing but a short remainder of the eligible indices is missing.
C16_SubsampledIndices ==
    Returned =>
        LET eligible == Selected(Length(buffer), gotBatches.ratio)
        IN  /\ Covered \subseteq eligible
            /\ 2 * Cardinality(eligible \ Covered) < gotBatches.batchSize

\* every second of four transitions, one per minibatch
C16_Witness ==
    /\ Returned
    /\ Length(buffer) = 4
    /\ gotBatches.ratio = 2
    /\ gotBatches.batchSize = 1
    /\ Covered = {1, 3}

\* the six arrays add() fills
Stored(b) == <<b.states, b.actions, b.rewards, b.values, b.logProbs, b.dones>>

\* C17: while update() runs (computeReturnsAndAdvantages, then in every epoch
\* getBatches and one _updateBatch per minibatch) the stored states, actions,
\* rewards, values, logProbs and dones are those found at entry, and the
\* oldLogProbs of the minibatch being trained on are log-probabilities stored
\* at collection time.
C17_StoredTransitionsNeverRefreshed ==
    \A c \in Calls :
        c.pc = "update" =>
            /\ Stored(buffer) = Stored(c.entry.buffer)
            /\ c.oldLogProbs # <<>>
            /\ \A j \in 1..Len(c.oldLogProbs) :
                   \E t \in 1..Length(c.entry.buffer) :
                       /\ c.oldLogProbs[j] = c.entry.buffer.logProbs[t]
                       /\ c.oldLogProbs[j] <= c.entry.updateCount

\* the last epoch of a second update, training on a log-probability that was
\* stored under the first policy
C17_Witness ==
    \E c \in Calls :
        /\ c.pc = "update"
        /\ c.epoch = EPOCHS_PER_UPDATE - 1
        /\ c.entry.updateCount = 1
        /\ \E j \in 1..Len(c.oldLogProbs) : c.oldLogProbs[j] = 0

\* C18: every component of logStd lies in [-3, 1], from construction on and
\* after every _updateBatch, whatever the optimizer added to it.
C18_LogStdClamped ==
    \A i \in Dims :
        /\ RLe(I(LogStdMin), actor.model.logStd[i])
        /\ RLe(actor.model.logStd[i], I(LogStdMax))

\* an _updateBatch whose gradient step took logStd below -3, and one that took
\* it above 1, have been clamped
C18_Witness ==
    /\ actor.op = "updateBatch"
    /\ \E i \in Dims :
          \/ RLt(actor.moved[i], I(LogStdMin)) /\ actor.model.logStd[i] = I(LogStdMin)
          \/ RLt(I(LogStdMax), actor.moved[i]) /\ actor.model.logStd[i] = I(LogStdMax)

\* the population variance of a sequence, as mean of squares minus square of
\* the mean
Variance(s) ==
    RSub(Average(Squares(s)), RMul(Average(s), Average(s)))

\* C19: after computeReturnsAndAdvantages on a buffer whose raw advantages are
\* not all equal, entry t of the stored advantages is (adv[t] - m) / (sd + 1e-8)
\* with m the mean and sd > 0 the population standard deviation of the raw
\* advantages: the stored sequence sums to 0 and its population standard
\* deviation is sd / (sd + 1e-8).
C19_AdvantagesNormalized ==
    bufOp = "compute" /\ (\E t \in 1..Len(gaeAdvantages) : gaeAdvantages[t] # gaeAdvantages[1]) =>
        LET adv == Val(buffer.advantages)
            n == Len(adv)
            cs == [t \in 1..n |-> adv[t].c]
        IN  /\ n = Length(buffer)
            /\ RSum(cs) = I(0)
            /\ \A t \in 1..n :
                  /\ adv[t].c = RSub(gaeAdvantages[t], Average(gaeAdvantages))
                  /\ adv[t].v = Variance(gaeAdvantages)
                  /\ adv[t].v = Average(Squares(cs))
                  /\ RLt(I(0), adv[t].v)

\* three transitions whose raw advantages differ
C19_Witness ==
    /\ bufOp = "compute"
    /\ Length(buffer) = MaxLen
    /\ gaeAdvantages[1] # gaeAdvantages[2]
    /\ Val(buffer.advantages)[1].c # I(0)

\* C20: when the transition's log-probability is recomputed under the
\* parameters and logStd it was collected under, computeLogProb gives the
\* logProb act() returned, the ratio is 1 and the two surrogate terms are
\* equal.
C20_RatioOneAtEqualPolicy ==
    ~IsNull(actor.terms) /\ Val(actor.sample).model = actor.model =>
        /\ Val(actor.terms).newLogProb = Val(actor.sample).out.logProb
        /\ Val(actor.terms).ratio = I(1)
        /\ Val(actor.terms).surr1 = Val(actor.terms).surr2

\* a sample that act() clipped to 1, recomputed under the same policy
C20_Witness ==
    /\ actor.op = "computeLogProb"
    /\ Val(actor.sample).model = actor.model
    /\ actor.model.logStd[1] = I(LogStdMax)
    /\ Val(actor.sample).out.action[1] = I(1)
    /\ Val(actor.sample).out.mean[1] = I(0)

\* C21: on an empty buffer getBatches gives no minibatch and getStats gives
\* meanReward 0, totalReward 0 and episodes 0; neither raises.
C21_EmptyBufferHandling ==
    Length(buffer) = 0 =>
        /\ bufOp = "getBatches" => ~gotBatches.raised /\ gotBatches.batches = <<>>
        /\ bufOp = "getStats" =>
               Val(gotStats) = [meanReward |-> I(0), totalReward |-> I(0), episodes |-> 0]

\* getStats() on a buffer emptied by clear()
C21_Witness ==
    /\ bufOp = "getStats"
    /\ Length(buffer) = 0
    /\ buffer = EmptyBuffer
    /\ ~IsNull(gotStats)

\* C22: a store() made while an update is running, and an update() on an empty
\* buffer, end in an error and change nothing; in particular the update does
\* not advance updateCount.
C22_ContractViolationsSurfaced ==
    /\ apiCall.op = "store" /\ apiCall.during =>
           /\ apiCall.raised
           /\ Length(buffer) = apiCall.before.length
           /\ agent.totalSteps = apiCall.before.totalSteps
    /\ apiCall.op = "update" /\ apiCall.before.length = 0 =>
           /\ apiCall.raised
           /\ agent.updateCount = apiCall.before.updateCount

\* C23: a store() with a state or action vector of the wrong length ends in an
\* error and leaves the buffer, totalSteps and episodeCount as they were.
C23_MalformedInputRejected ==
    apiCall.op = "store" /\ ~apiCall.wellFormed =>
        /\ apiCall.raised
        /\ Length(buffer) = apiCall.before.length
        /\ agent.totalSteps = apiCall.before.totalSteps
        /\ agent.episodeCount = apiCall.before.episodeCount

\* C30: debugLogger.logs never holds more than maxLogs entries.
C30_LogsBounded == Len(logs.entries) <= maxLogs

\* C24: whenever a frame, a timer callback or a continuation can run, the
\* agent in state.agent has completed its pretrain(): no act(), store() or
\* update() reaches an instance that has not.
C24_PretrainPrecedesInteraction == agent.pretrained

\* the agent made by a restart has had a trajectory stored while a
\* performPPOUpdate() called before the restart is still waiting for its timer
C24_Witness ==
    /\ agent.modelId = 1
    /\ agent.pretrained
    /\ agent.totalSteps > 0
    /\ \E p \in 1..Len(procs) : procs[p].pc = "sleep"

\* C25: when update() has returned, lastLoss holds the losses of the last
\* minibatch of the last epoch of that very update, never those of an earlier
\* update nor the initial zeros.
C25_LastLossIsFinalMinibatch ==
    \A c \in Calls :
        c.pc = "returned" =>
            agent.lastLoss =
                [update |-> c.entry.updateCount + 1,
                 epoch |-> EPOCHS_PER_UPDATE - 1,
                 batch |-> Len(Chunks(Indices(Length(c.entry.buffer), SubsampleRatio),
                                      0, BATCH_SIZE))]

\* C26: executions of update() never overlap: at most one call is between its
\* entry and its return, every call found isUpdating false when it was entered,
\* and isUpdating is true exactly while a call is inside update(), although
\* every frame in which shouldUpdate() is true makes one more unawaited call.
C26_UpdatesNeverOverlap ==
    /\ Cardinality({p \in 1..Len(procs) : procs[p].pc = "update"}) <= 1
    /\ \A c \in Calls : c.pc \in {"update", "returned"} => ~c.entry.isUpdating
    /\ agent.isUpdating <=> \E c \in Calls : c.pc = "update"

\* one call is inside update() while a second, made by a later frame, has had
\* its timer started and waits for it to fire
C26_Witness ==
    \E p, q \in 1..Len(procs) :
        /\ procs[p].pc = "update"
        /\ procs[q].pc = "sleep"
        /\ p < q
        /\ agent.isUpdating

\* the trajectories ts, one after another
RECURSIVE Concat(_)
Concat(ts) == IF ts = <<>> THEN <<>> ELSE Head(ts) \o Concat(Tail(ts))

\* the six arrays that storing the steps, in their order, appends
AsStored(steps) ==
    <<[k \in 1..Len(steps) |-> steps[k].state],
      [k \in 1..Len(steps) |-> steps[k].action],
      [k \in 1..Len(steps) |-> steps[k].reward],
      [k \in 1..Len(steps) |-> steps[k].value],
      [k \in 1..Len(steps) |-> steps[k].logProb],
      [k \in 1..Len(steps) |-> IF steps[k].done THEN 1 ELSE 0]>>

\* the k-th car, in the order of the cars, of the set S
NthCar(S, k) == CHOOSE i \in S : Cardinality({j \in S : j < i}) = k - 1

\* C27: without a restart every transition ppoStep appends to a trajectory is
\* passed to agent.store exactly once.  In a frame, a car that goes on keeps its
\* trajectory, one step longer; a car found dead or finished has its whole
\* trajectory (the steps of the frames before and, if it acted, this frame's)
\* stored in that frame, and starts an empty one.  The buffer grows by exactly
\* the flushed trajectories, car after car, each in its order and contiguous,
\* and totalSteps by their number.  No other step stores anything or touches a
\* trajectory.  (A step with no continuation pending before or after it is a
\* frame: a timer callback leaves update() at an await or returned.)
C27_TransitionConservation ==
    [][IF MicrotaskQueueEmpty /\ MicrotaskQueueEmpty'
       THEN LET ended == {i \in CarIds : cars'[i].trajectory = <<>>}
                all == Concat(flushed')
            IN  /\ Len(flushed') = Cardinality(ended)
                /\ \A k \in 1..Len(flushed') :
                     LET old == cars[NthCar(ended, k)].trajectory
                         t == flushed'[k]
                     IN  /\ Len(t) \in {Len(old), Len(old) + 1}
                         /\ SubSeq(t, 1, Len(old)) = old
                         /\ t # <<>>
                         /\ \A j \in 1..Len(t) : t[j].state = NthCar(ended, k)
                /\ \A i \in CarIds \ ended :
                     LET old == cars[i].trajectory
                         t == cars'[i].trajectory
                     IN  Len(t) = Len(old) + 1 /\ SubSeq(t, 1, Len(old)) = old
                /\ \A f \in 1..6 :
                     Stored(buffer')[f] = Stored(buffer)[f] \o AsStored(all)[f]
                /\ agent'.totalSteps = agent.totalSteps + Len(all)
                /\ stateTotalSteps' = stateTotalSteps + Len(all)
       ELSE /\ cars' = cars
            /\ agent'.totalSteps = agent.totalSteps
            /\ stateTotalSteps' = stateTotalSteps
            /\ Stored(buffer') = Stored(buffer) \/ buffer' = EmptyBuffer]_vars

\* a frame has flushed the trajectories of both cars, one of them several steps
\* long, behind transitions stored by earlier frames
C27_Witness ==
    /\ Len(flushed) = NUM_ENVS
    /\ \E k \in 1..Len(flushed) : Len(flushed[k]) >= 2
    /\ Length(buffer) > Len(Concat(flushed))
    /\ \A f \in 1..6 :
         SubSeq(Stored(buffer)[f], Length(buffer) - Len(Concat(flushed)) + 1,
                Length(buffer)) = AsStored(Concat(flushed))[f]
    /\ agent.totalSteps = stateTotalSteps

\* bootstrap values other than those the harness passes
OtherBootstraps == {I(-1), I(5)}

\* C28: when the last stored transition has done = true, the returns and the
\* advantages (of the GAE pass and as normalized and stored) that
\* computeReturnsAndAdvantages leaves are the same for every bootstrap value.
C28_BootstrapIndependence ==
    (Computed /\ N >= 1 /\ DoneAt(N)) =>
        \A lv \in OtherBootstraps :
            /\ Val(buffer.returns) = McReturns(Prefix(buffer, N), lv, callArgs.gamma)
            /\ gaeAdvantages =
                   GaePass(Prefix(buffer, N), lv, callArgs.gamma, callArgs.lambda)
            /\ Val(buffer.advantages) =
                   NormalizeAdvantages(GaePass(Prefix(buffer, N), lv, callArgs.gamma,
                                               callArgs.lambda))

\* returns and advantages were computed with a bootstrap value that is not 0
\* on a buffer that ends an episode at its last step and at no other
C28_Witness ==
    /\ Computed
    /\ N = 3
    /\ buffer.dones = <<0, 0, 1>>
    /\ callArgs.lastValue = I(2)
    /\ callArgs.gamma = Rat(1, 2)
    /\ buffer.values[N] = I(2)

\* C29: with frames, timers and continuations served, whenever shouldUpdate()
\* is true an update() later completes: updateCount has grown, and the update
\* has left episodeCount 0, the buffer empty and isUpdating false.
C29_UpdateEventuallyCompletes ==
    \A n \in 0..MaxTotalSteps :
        (ShouldUpdate(agent) /\ agent.updateCount = n)
            ~> (/\ agent.updateCount > n
                /\ agent.episodeCount = 0
                /\ Length(buffer) = 0
                /\ ~agent.isUpdating
                /\ \E c \in Calls : c.pc = "returned" /\ c.stats = agent.updateCount)

\* an update entered with shouldUpdate() true, on transitions stored both
\* before and during its timer's wait, has just returned
C29_Witness ==
    \E c \in Calls :
        /\ c.pc = "returned"
        /\ c.entry.episodeCount >= MIN_EPISODES_FOR_UPDATE
        /\ c.entry.totalSteps > c.trigger.totalSteps
        /\ agent.updateCount = c.entry.updateCount + 1
        /\ agent.episodeCount = 0
        /\ Length(buffer) = 0

====
